---------------------------- MODULE Spec2Model ----------------------------
(***************************************************************************)
(* The pool-backed list (ll_list_pool.hpp) and the intrusive list          *)
(* (ll_intrusive_list.hpp) as state machines over an explicit heap of      *)
(* prev/next link fields.  Addresses are integers; every pointer write of  *)
(* the C++ is one function update, applied in the order the code applies   *)
(* it, so aliasing between the arguments acts as it does in the code.      *)
(*                                                                         *)
(* A method is an operator from the memory before the call to the memory   *)
(* after it (and the result); an action is one call of a method by a       *)
(* caller that meets the method's preconditions.  The variable last holds  *)
(* the call just made and pre the memory it started from, until the        *)
(* caller goes on (Return); postconditions are stated on these.            *)
(*                                                                         *)
(* As in demo_small, the driver works on one container kind at a time:     *)
(* scope says which.  The two kinds share no memory.                       *)
(*                                                                         *)
(* T is the driver's order: constructing it cannot throw, and destroying   *)
(* it ends the value's lifetime (the slot then holds NoValue).  The value  *)
(* member of the sentinel is not modelled: no method reads or writes it.   *)
(***************************************************************************)
EXTENDS Integers, Sequences, FiniteSets, TLC

(* ------------------------------ bounds -------------------------------- *)

\* largest capacity handed to ll_list_pool's constructor
MaxCap == 3
\* values handed to emplace_front / emplace_back are 1..MaxVal
MaxVal == 2
\* number of intrusive_hook objects the callers own
NHooks == 4
\* the capacity of each of the two pool lists of CrossSpec
CrossCap == 2
\* the token scan is run on every character sequence of up to MaxLen characters
MaxLen == 3
\* const int N of the token scan (200000000 in the source), scaled down
ScanN == 120

(* ----------------------------- addresses ------------------------------ *)

\* nullptr
NULL == 0
\* a link field that was never written (raw slab storage)
INDET == -1
\* a value slot holding no constructed T
NoValue == 0
\* no address: marks a traversal that did not come back to its sentinel
BAD == INDET - 1

PoolLists == {1, 2}
Sentinel(L) == 100 * L
\* &slab_[i] of list L, i = 0 .. MaxCap-1
Slot(L, i) == 100 * L + 1 + i
Slab(L) == {Slot(L, i) : i \in 0..(MaxCap - 1)}
PoolNodes == {Sentinel(L) : L \in PoolLists} \cup UNION {Slab(L) : L \in PoolLists}
PoolSlots == UNION {Slab(L) : L \in PoolLists}
Values == 1..MaxVal

IntrLists == {1, 2}
ISentinel(L) == 1000 * L
\* the addresses of the hooks
Hooks == 1..NHooks
\* the host object a hook is a member of: hosts embed two hooks each (one
\* for each list they can be on), hooks 2k-1 and 2k in host k
HostOf(h) == (h + 1) \div 2
Hosts == {HostOf(h) : h \in Hooks}
ISentinels == {ISentinel(L) : L \in IntrLists}
IntrNodes == Hooks \cup ISentinels

VARIABLES
    scope,      \* what runs: the driver's "pool" or "intrusive" block, or the token "scan"
    prev,       \* node::prev of every pool node
    next,       \* node::next of every pool node
    value,      \* node::value of every slab slot (NoValue: no live T)
    free_,      \* ll_list_pool::free_
    size_,      \* ll_list_pool::size_
    cap_,       \* ll_list_pool::cap_
    hprev,      \* intrusive_hook::prev of every hook and sentinel
    hnext,      \* intrusive_hook::next of every hook and sentinel
    payload,    \* intrusive_order::id of every host
    last,       \* the call just made: operation, arguments, result
    pre,        \* the state the call just made started from
    scan        \* the token scan: input s, loop index i, current, best, result printed

vars == <<scope, prev, next, value, free_, size_, cap_, hprev, hnext, payload, last, pre, scan>>

(* ----------------------------- heap writes ---------------------------- *)

SetPrev(h, n, v) == [h EXCEPT !.prev[n] = v]
SetNext(h, n, v) == [h EXCEPT !.next[n] = v]

(* --------------------------- traversals ------------------------------- *)

RECURSIVE Walk(_, _, _, _)
\* the nodes met following link field f from n until stop, at most fuel of them
Walk(f, n, stop, fuel) ==
    IF n = stop THEN <<>>
    ELSE IF fuel = 0 \/ n \notin DOMAIN f THEN <<BAD>>
    ELSE <<n>> \o Walk(f, f[n], stop, fuel - 1)

Range(s) == {s[i] : i \in 1..Len(s)}
Reverse(s) == [i \in 1..Len(s) |-> s[Len(s) + 1 - i]]
Index(s, x) == CHOOSE i \in 1..Len(s) : s[i] = x
NoDup(s) == \A i, j \in 1..Len(s) : s[i] = s[j] => i = j
\* s without its elements in set X, order kept
RECURSIVE Without(_, _)
Without(s, X) ==
    IF s = <<>> THEN <<>>
    ELSE IF Head(s) \in X THEN Without(Tail(s), X)
    ELSE <<Head(s)>> \o Without(Tail(s), X)

(* ======================= ll_list_pool<T> ============================== *)

\* the pool lists' memory as one value, the argument and result of every method
PoolState ==
    [prev |-> prev, next |-> next, value |-> value,
     free_ |-> free_, size_ |-> size_, cap_ |-> cap_]

\* for (it = begin(); it != end(); ++it), in pool state s
FwdOf(s, L) == Walk(s.next, s.next[Sentinel(L)], Sentinel(L), MaxCap + 1)
\* for (it = --end(); it != end(); --it)
BwdOf(s, L) == Walk(s.prev, s.prev[Sentinel(L)], Sentinel(L), MaxCap + 1)
\* the free chain: free_, free_->next, ... until nullptr
FreeChainOf(s, L) == Walk(s.next, s.free_[L], NULL, MaxCap + 1)
Fwd(L) == FwdOf(PoolState, L)
Bwd(L) == BwdOf(PoolState, L)
FreeChain(L) == FreeChainOf(PoolState, L)

\* link x between a and b: a <-> x <-> b
link_between(h, x, a, b) ==
    LET h1 == SetPrev(h, x, a)
        h2 == SetNext(h1, x, b)
        h3 == SetNext(h2, a, x)
    IN  SetPrev(h3, b, x)

\* unlink x from the list: a-x-b => a-b
unlink(h, x) ==
    LET h1 == SetNext(h, h.prev[x], h.next[x])
    IN  SetPrev(h1, h1.next[x], h1.prev[x])

\* mutant of alloc_node: the head is handed out but stays on the free chain
alloc_node_no_pop(s, L) ==
    IF s.free_[L] = NULL
    THEN [s |-> s, n |-> NULL, exc |-> TRUE]
    ELSE [s |-> s, n |-> s.free_[L], exc |-> FALSE]

\* Allocate a node from the free list; throws std::bad_alloc when it is empty
alloc_node(s, L) ==
    IF s.free_[L] = NULL
    THEN [s |-> s, n |-> NULL, exc |-> TRUE]
    ELSE [s |-> [s EXCEPT !.free_[L] = s.next[s.free_[L]]],
          n |-> s.free_[L], exc |-> FALSE]

\* Return a node back to the free list
free_node(s, L, n) ==
    LET s1 == SetNext(s, n, s.free_[L])
    IN  [s1 EXCEPT !.free_[L] = n]

RECURSIVE construct_loop(_, _, _)
\* for (i = 0; i < cap_; ++i) { slab_[i].next = free_; free_ = &slab_[i]; }
construct_loop(s, L, i) ==
    IF i >= s.cap_[L] THEN s
    ELSE construct_loop(free_node(s, L, Slot(L, i)), L, i + 1)

\* ll_list_pool(capacity), run on raw memory
construct(s, L, capacity) ==
    LET s0 == [s EXCEPT !.free_[L] = NULL, !.cap_[L] = capacity, !.size_[L] = 0]
        s1 == construct_loop(s0, L, 0)
        s2 == SetPrev(s1, Sentinel(L), Sentinel(L))
    IN  SetNext(s2, Sentinel(L), Sentinel(L))

\* n->value.~T()
destroy_value(s, n) == [s EXCEPT !.value[n] = NoValue]

\* ::new (&n->value) T(args...)
construct_value(s, n, v) == [s EXCEPT !.value[n] = v]

\* mutant of emplace_front: the node is linked before the sentinel, not after it
emplace_front_at_back(s, L, v) ==
    LET a == alloc_node(s, L)
    IN  IF a.exc THEN [s |-> s, ret |-> NULL, exc |-> TRUE]
        ELSE LET s1 == construct_value(a.s, a.n, v)
                 s2 == link_between(s1, a.n, s1.prev[Sentinel(L)], Sentinel(L))
             IN  [s |-> [s2 EXCEPT !.size_[L] = @ + 1], ret |-> a.n, exc |-> FALSE]

emplace_front(s, L, v) ==
    LET a == alloc_node(s, L)
    IN  IF a.exc THEN [s |-> s, ret |-> NULL, exc |-> TRUE]
        ELSE LET s1 == construct_value(a.s, a.n, v)
                 s2 == link_between(s1, a.n, Sentinel(L), s1.next[Sentinel(L)])
             IN  [s |-> [s2 EXCEPT !.size_[L] = @ + 1], ret |-> a.n, exc |-> FALSE]

\* mutant of emplace_back: ++size_ done before alloc_node() can throw
emplace_back_counts_first(s, L, v) ==
    LET s0 == [s EXCEPT !.size_[L] = @ + 1]
        a == alloc_node(s0, L)
    IN  IF a.exc THEN [s |-> s0, ret |-> NULL, exc |-> TRUE]
        ELSE LET s1 == construct_value(a.s, a.n, v)
             IN  [s |-> link_between(s1, a.n, s1.prev[Sentinel(L)], Sentinel(L)),
                  ret |-> a.n, exc |-> FALSE]

emplace_back(s, L, v) ==
    LET a == alloc_node(s, L)
    IN  IF a.exc THEN [s |-> s, ret |-> NULL, exc |-> TRUE]
        ELSE LET s1 == construct_value(a.s, a.n, v)
                 s2 == link_between(s1, a.n, s1.prev[Sentinel(L)], Sentinel(L))
             IN  [s |-> [s2 EXCEPT !.size_[L] = @ + 1], ret |-> a.n, exc |-> FALSE]

\* mutant of erase: free_node(n) forgotten, the slot never returns to the pool
erase_no_free(s, L, n) ==
    LET nxt == s.next[n]
        s1 == unlink(s, n)
        s2 == destroy_value(s1, n)
    IN  [s |-> [s2 EXCEPT !.size_[L] = @ - 1], ret |-> nxt, exc |-> FALSE]

\* mutant of erase: n->next read for the result only after free_node(n)
erase_late_next(s, L, n) ==
    LET s1 == unlink(s, n)
        s2 == destroy_value(s1, n)
        s3 == free_node(s2, L, n)
    IN  [s |-> [s3 EXCEPT !.size_[L] = @ - 1], ret |-> s3.next[n], exc |-> FALSE]

\* mutant of erase: --size_ forgotten
erase_keeps_size(s, L, n) ==
    LET nxt == s.next[n]
        s1 == unlink(s, n)
        s2 == destroy_value(s1, n)
    IN  [s |-> free_node(s2, L, n), ret |-> nxt, exc |-> FALSE]

erase(s, L, n) ==
    LET nxt == s.next[n]
        s1 == unlink(s, n)
        s2 == destroy_value(s1, n)
        s3 == free_node(s2, L, n)
    IN  [s |-> [s3 EXCEPT !.size_[L] = @ - 1], ret |-> nxt, exc |-> FALSE]

RECURSIVE clear_loop(_, _, _)
\* while (cur != end) { next = cur->next; cur->value.~T(); free_node(cur); cur = next; }
clear_loop(s, L, cur) ==
    IF cur = Sentinel(L) THEN s
    ELSE LET nxt == s.next[cur]
         IN  clear_loop(free_node(destroy_value(s, cur), L, cur), L, nxt)

\* mutant of clear: the sentinel is not linked back to itself
clear_no_reset(s, L) ==
    LET s1 == clear_loop(s, L, s.next[Sentinel(L)])
    IN  [s |-> [s1 EXCEPT !.size_[L] = 0], ret |-> NULL, exc |-> FALSE]

clear(s, L) ==
    LET s1 == clear_loop(s, L, s.next[Sentinel(L)])
        s2 == SetPrev(s1, Sentinel(L), Sentinel(L))
        s3 == SetNext(s2, Sentinel(L), Sentinel(L))
    IN  [s |-> [s3 EXCEPT !.size_[L] = 0], ret |-> NULL, exc |-> FALSE]

\* mutant of splice: x counted as a node arriving from another list (++size_)
splice_counts(s, L, pos, x) ==
    IF x = pos THEN [s |-> s, ret |-> NULL, exc |-> FALSE]
    ELSE LET s1 == unlink(s, x)
             s2 == link_between(s1, x, s1.prev[pos], pos)
         IN  [s |-> [s2 EXCEPT !.size_[L] = @ + 1], ret |-> NULL, exc |-> FALSE]

\* mutant of splice: the x == pos early return forgotten
splice_no_guard(s, L, pos, x) ==
    LET s1 == unlink(s, x)
    IN  [s |-> link_between(s1, x, s1.prev[pos], pos), ret |-> NULL, exc |-> FALSE]

\* mutant of splice: x linked at its new place without being unlinked first
splice_no_unlink(s, L, pos, x) ==
    IF x = pos THEN [s |-> s, ret |-> NULL, exc |-> FALSE]
    ELSE [s |-> link_between(s, x, s.prev[pos], pos), ret |-> NULL, exc |-> FALSE]

\* splice(pos, what): moves node x before pos
splice(s, L, pos, x) ==
    IF x = pos THEN [s |-> s, ret |-> NULL, exc |-> FALSE]
    ELSE LET s1 == unlink(s, x)
         IN  [s |-> link_between(s1, x, s1.prev[pos], pos), ret |-> NULL, exc |-> FALSE]

\* mutant of splice_range: the range closed at first, as if it held one node
splice_range_single(s, L, pos, a, b) ==
    IF a = b THEN [s |-> s, ret |-> NULL, exc |-> FALSE]
    ELSE LET s1 == SetNext(s, s.prev[a], b)
             s2 == SetPrev(s1, b, s1.prev[a])
             before == s2.prev[pos]
             s3 == SetNext(s2, before, a)
             s4 == SetPrev(s3, a, before)
             s5 == SetNext(s4, a, pos)
         IN  [s |-> SetPrev(s5, pos, a), ret |-> NULL, exc |-> FALSE]

\* splice(pos, first, last): moves [a, b) before pos
splice_range(s, L, pos, a, b) ==
    IF a = b THEN [s |-> s, ret |-> NULL, exc |-> FALSE]
    ELSE LET tail == s.prev[b]
             s1 == SetNext(s, s.prev[a], b)
             s2 == SetPrev(s1, b, s1.prev[a])
             before == s2.prev[pos]
             s3 == SetNext(s2, before, a)
             s4 == SetPrev(s3, a, before)
             s5 == SetNext(s4, tail, pos)
         IN  [s |-> SetPrev(s5, pos, tail), ret |-> NULL, exc |-> FALSE]

\* ::operator delete(slab_, ...): the slab's storage goes back to the system;
\* no destructor of T runs, so a value still alive in it is never destroyed
release(s, L) ==
    [s EXCEPT !.prev = [n \in DOMAIN @ |->
                          IF n \in {Slot(L, i) : i \in 0..(s.cap_[L] - 1)} THEN INDET ELSE @[n]],
              !.next = [n \in DOMAIN @ |->
                          IF n \in {Slot(L, i) : i \in 0..(s.cap_[L] - 1)} THEN INDET ELSE @[n]]]

\* mutant of destroy_list: clear() forgotten before the slab is released
destroy_list_no_clear(s, L) == [s |-> release(s, L), ret |-> NULL, exc |-> FALSE]

\* ~ll_list_pool(): clear(); ::operator delete(slab_)
destroy_list(s, L) ==
    [s |-> release(clear(s, L).s, L), ret |-> NULL, exc |-> FALSE]

(* ===================== intrusive_list ================================= *)

\* the hooks' and sentinels' link fields as one value
IntrState == [prev |-> hprev, next |-> hnext]

is_linked(s, x) == s.prev[x] # NULL /\ s.next[x] # NULL

\* mutant of il_link_between: b->prev = x forgotten
il_link_between_no_back(s, x, a, b) ==
    LET s1 == SetPrev(s, x, a)
        s2 == SetNext(s1, x, b)
    IN  SetNext(s2, a, x)

il_link_between(s, x, a, b) ==
    LET s1 == SetPrev(s, x, a)
        s2 == SetNext(s1, x, b)
        s3 == SetNext(s2, a, x)
    IN  SetPrev(s3, b, x)

\* mutant of il_unlink: x->next->prev = x->prev forgotten
il_unlink_half(s, x) ==
    IF ~is_linked(s, x) THEN s
    ELSE LET s1 == SetNext(s, s.prev[x], s.next[x])
             s3 == SetPrev(s1, x, NULL)
         IN  SetNext(s3, x, NULL)

\* mutant of il_unlink: x->next = nullptr forgotten
il_unlink_keeps_next(s, x) ==
    IF ~is_linked(s, x) THEN s
    ELSE LET s1 == SetNext(s, s.prev[x], s.next[x])
             s2 == SetPrev(s1, s1.next[x], s1.prev[x])
         IN  SetPrev(s2, x, NULL)

\* mutant of il_unlink: x's own link fields are not cleared
il_unlink_no_null(s, x) ==
    IF ~is_linked(s, x) THEN s
    ELSE LET s1 == SetNext(s, s.prev[x], s.next[x])
         IN  SetPrev(s1, s1.next[x], s1.prev[x])

\* mutant of il_unlink: a hook that is not linked is linked to itself
il_unlink_self_link(s, x) ==
    IF ~is_linked(s, x) THEN SetNext(SetPrev(s, x, x), x, x)
    ELSE LET s1 == SetNext(s, s.prev[x], s.next[x])
             s2 == SetPrev(s1, s1.next[x], s1.prev[x])
             s3 == SetPrev(s2, x, NULL)
         IN  SetNext(s3, x, NULL)

il_unlink(s, x) ==
    IF ~is_linked(s, x) THEN s
    ELSE LET s1 == SetNext(s, s.prev[x], s.next[x])
             s2 == SetPrev(s1, s1.next[x], s1.prev[x])
             s3 == SetPrev(s2, x, NULL)
         IN  SetNext(s3, x, NULL)

\* mutant of il_construct: sentinel_.prev = &sentinel_ forgotten
il_construct_half(s, L) == SetNext(s, ISentinel(L), ISentinel(L))

\* intrusive_list(): the sentinel linked to itself
il_construct(s, L) ==
    SetNext(SetPrev(s, ISentinel(L), ISentinel(L)), ISentinel(L), ISentinel(L))

empty(s, L) == s.next[ISentinel(L)] = ISentinel(L)
front(s, L) == s.next[ISentinel(L)]
back(s, L) == s.prev[ISentinel(L)]
end(L) == ISentinel(L)

push_front(s, L, h) == il_link_between(s, h, ISentinel(L), s.next[ISentinel(L)])
\* mutant of push_back: h linked right after the sentinel
push_back_at_front(s, L, h) == il_link_between(s, h, ISentinel(L), s.next[ISentinel(L)])
push_back(s, L, h) == il_link_between(s, h, s.prev[ISentinel(L)], ISentinel(L))
remove(s, h) == il_unlink(s, h)

RECURSIVE il_clear_loop(_, _, _)
\* while (!empty()) remove(front());  n counts the removals, fuel cuts a loop
\* that would not end
il_clear_loop(s, L, n) ==
    IF empty(s, L) THEN [s |-> s, n |-> n]
    ELSE IF n > NHooks THEN [s |-> s, n |-> BAD]
    ELSE il_clear_loop(remove(s, front(s, L)), L, n + 1)

\* mutant of il_clear: if (!empty()) in place of while (!empty())
il_clear_once(s, L) ==
    IF empty(s, L) THEN [s |-> s, n |-> 0]
    ELSE [s |-> remove(s, front(s, L)), n |-> 1]

il_clear(s, L) == il_clear_loop(s, L, 0)

\* mutant of il_splice: h linked at its new place without being unlinked first
il_splice_no_unlink(s, pos, h) ==
    IF h = pos THEN s
    ELSE il_link_between(s, h, s.prev[pos], pos)

\* mutant of il_splice: h linked after pos, not before it
il_splice_after(s, pos, h) ==
    IF h = pos THEN s
    ELSE LET s1 == il_unlink(s, h)
         IN  il_link_between(s1, h, pos, s1.next[pos])

\* mutant of il_splice: a hook that is not linked is left alone
il_splice_linked_only(s, pos, h) ==
    IF h = pos \/ ~is_linked(s, h) THEN s
    ELSE LET s1 == il_unlink(s, h)
         IN  il_link_between(s1, h, s1.prev[pos], pos)

\* splice(pos, h): moves hook h before pos
il_splice(s, pos, h) ==
    IF h = pos THEN s
    ELSE LET s1 == il_unlink(s, h)
         IN  il_link_between(s1, h, s1.prev[pos], pos)

\* mutant of il_splice_range: tail read only after last->prev was rewritten
il_splice_range_late_tail(s, pos, first, lst) ==
    IF first = lst THEN s
    ELSE LET s1 == SetNext(s, s.prev[first], lst)
             s2 == SetPrev(s1, lst, s1.prev[first])
             tail == s2.prev[lst]
             before == s2.prev[pos]
             s3 == SetNext(s2, before, first)
             s4 == SetPrev(s3, first, before)
             s5 == SetNext(s4, tail, pos)
         IN  SetPrev(s5, pos, tail)

\* splice(pos, first, last): moves [first, last) before pos
il_splice_range(s, pos, first, lst) ==
    IF first = lst THEN s
    ELSE LET tail == s.prev[lst]
             s1 == SetNext(s, s.prev[first], lst)
             s2 == SetPrev(s1, lst, s1.prev[first])
             before == s2.prev[pos]
             s3 == SetNext(s2, before, first)
             s4 == SetPrev(s3, first, before)
             s5 == SetNext(s4, tail, pos)
         IN  SetPrev(s5, pos, tail)

\* for (h = front(); h != end(); h = h->next), in hook state s
IFwdOf(s, L) == Walk(s.next, front(s, L), end(L), NHooks + 1)
\* for (h = back(); h != end(); h = h->prev)
IBwdOf(s, L) == Walk(s.prev, back(s, L), end(L), NHooks + 1)
IFwd(L) == IFwdOf(IntrState, L)
IBwd(L) == IBwdOf(IntrState, L)

\* ~intrusive_list(): none is declared, the implicit one writes no hook; the
\* sentinel's storage ends with the list
il_destroy(s, L) ==
    SetNext(SetPrev(s, ISentinel(L), INDET), ISentinel(L), INDET)

(* ----------------------- the pool list's callers ---------------------- *)

\* the positions an iterator of list L can name: the elements, then end()
Positions(L) == Fwd(L) \o <<Sentinel(L)>>

\* the list the driver's pool block works on
Driven == {1}

Idle == [op |-> "none", list |-> 0, args |-> <<>>, ret |-> NULL, exc |-> FALSE]

\* the driver is in its pool block and between two calls
PoolIdle == scope = "pool" /\ last.op = "none"

\* one call on pool list L: r is the method's result on PoolState
Call(op, L, args, r) ==
    /\ prev' = r.s.prev /\ next' = r.s.next /\ value' = r.s.value
    /\ free_' = r.s.free_ /\ size_' = r.s.size_ /\ cap_' = r.s.cap_
    /\ last' = [op |-> op, list |-> L, args |-> args, ret |-> r.ret, exc |-> r.exc]
    /\ pre' = PoolState
    /\ UNCHANGED <<scope, hprev, hnext, payload, scan>>

EmplaceFront(L) ==
    /\ PoolIdle
    /\ \E v \in Values : Call("emplace_front", L, <<v>>, emplace_front(PoolState, L, v))

EmplaceBack(L) ==
    /\ PoolIdle
    /\ \E v \in Values : Call("emplace_back", L, <<v>>, emplace_back(PoolState, L, v))

\* erase(it), it naming a live element
Erase(L) ==
    /\ PoolIdle
    /\ \E n \in Range(Fwd(L)) : Call("erase", L, <<n>>, erase(PoolState, L, n))

Clear(L) ==
    /\ PoolIdle
    /\ Call("clear", L, <<>>, clear(PoolState, L))

\* splice(pos, what): pos any position of the list, what a live element
Splice(L) ==
    /\ PoolIdle
    /\ \E pos \in Range(Positions(L)), x \in Range(Fwd(L)) :
           Call("splice", L, <<pos, x>>, splice(PoolState, L, pos, x))

\* splice(pos, first, last): [first, last) a range of the list, pos outside it
SpliceRange(L) ==
    /\ PoolIdle
    /\ LET P == Positions(L)
       IN  \E i \in 1..Len(P), j \in 1..Len(P), k \in 1..Len(P) :
             /\ i <= j
             /\ ~(i <= k /\ k < j)
             /\ Call("splice_range", L, <<P[k], P[i], P[j]>>,
                     splice_range(PoolState, L, P[k], P[i], P[j]))

\* the caller is done with the result of the call; the next call may start
Return ==
    /\ last.op # "none"
    /\ last' = Idle
    /\ pre' = IF scope = "pool" THEN PoolState ELSE IntrState
    /\ UNCHANGED <<scope, prev, next, value, free_, size_, cap_, hprev, hnext, payload, scan>>

PoolNext ==
    \/ \E L \in Driven : EmplaceFront(L)
    \/ \E L \in Driven : EmplaceBack(L)
    \/ \E L \in Driven : Erase(L)
    \/ \E L \in Driven : Clear(L)
    \/ \E L \in Driven : Splice(L)
    \/ \E L \in Driven : SpliceRange(L)

(* ---------------------- the intrusive list's callers ------------------ *)

IPositions(L) == IFwd(L) \o <<ISentinel(L)>>

IntrIdle == scope = "intrusive" /\ last.op = "none"

ICall(op, L, args, s) ==
    /\ hprev' = s.prev /\ hnext' = s.next
    /\ last' = [op |-> op, list |-> L, args |-> args, ret |-> NULL, exc |-> FALSE]
    /\ pre' = IntrState
    /\ UNCHANGED <<scope, prev, next, value, free_, size_, cap_, payload, scan>>

\* push_front(h), h not linked anywhere
PushFront(L) ==
    /\ IntrIdle
    /\ \E h \in Hooks : /\ ~is_linked(IntrState, h)
                        /\ ICall("push_front", L, <<h>>, push_front(IntrState, L, h))

PushBack(L) ==
    /\ IntrIdle
    /\ \E h \in Hooks : /\ ~is_linked(IntrState, h)
                        /\ ICall("push_back", L, <<h>>, push_back(IntrState, L, h))

Remove(L) ==
    /\ IntrIdle
    /\ \E h \in Hooks : ICall("remove", L, <<h>>, remove(IntrState, h))

IClear(L) ==
    /\ IntrIdle
    /\ LET r == il_clear(IntrState, L)
       IN  ICall("clear", L, <<r.n>>, r.s)

\* splice(pos, h): pos on the ring of L, h a linked hook of any list
ISplice(L) ==
    /\ IntrIdle
    /\ \E pos \in Range(IPositions(L)), h \in Hooks :
           /\ is_linked(IntrState, h)
           /\ ICall("splice", L, <<pos, h>>, il_splice(IntrState, pos, h))

\* splice(pos, first, last): pos on the ring of L and outside [first, last),
\* a range of the ring of list M
ISpliceRange(L) ==
    /\ IntrIdle
    /\ \E M \in IntrLists :
         LET P == IPositions(M)
         IN  \E i \in 1..Len(P), j \in 1..Len(P), pos \in Range(IPositions(L)) :
               /\ i <= j
               /\ \A k \in i..(j - 1) : P[k] # pos
               /\ ICall("splice_range", L, <<pos, P[i], P[j]>>,
                        il_splice_range(IntrState, pos, P[i], P[j]))

IntrNext ==
    \/ \E L \in IntrLists : PushFront(L)
    \/ \E L \in IntrLists : PushBack(L)
    \/ \E L \in IntrLists : Remove(L)
    \/ \E L \in IntrLists : IClear(L)
    \/ \E L \in IntrLists : ISplice(L)
    \/ \E L \in IntrLists : ISpliceRange(L)

(* ------------------------------ Init, Next ---------------------------- *)

\* no token scan is running
NoScan == [s |-> <<>>, i |-> 0, current |-> 0, best |-> 0, done |-> FALSE]

\* storage no constructor has run on
RawPool ==
    [prev |-> [n \in PoolNodes |-> INDET], next |-> [n \in PoolNodes |-> INDET],
     value |-> [n \in PoolSlots |-> NoValue],
     free_ |-> [L \in PoolLists |-> INDET],
     size_ |-> [L \in PoolLists |-> 0], cap_ |-> [L \in PoolLists |-> 0]]

\* hooks as their default member initialisers leave them
RawIntr == [prev |-> [n \in IntrNodes |-> NULL], next |-> [n \in IntrNodes |-> NULL]]

SetPool(s) ==
    /\ prev = s.prev /\ next = s.next /\ value = s.value
    /\ free_ = s.free_ /\ size_ = s.size_ /\ cap_ = s.cap_

\* the driver's pool block: ll_list_pool<order> lst(capacity)
InitPool ==
    /\ scope = "pool"
    /\ \E c \in 0..MaxCap : SetPool(construct(RawPool, 1, c))
    /\ hprev = RawIntr.prev /\ hnext = RawIntr.next
    /\ payload = [h \in Hosts |-> h]
    /\ last = Idle
    /\ scan = NoScan
    /\ pre = PoolState

\* the driver's intrusive block: two intrusive_list objects, the hosts unlinked
InitIntr ==
    /\ scope = "intrusive"
    /\ SetPool(RawPool)
    /\ LET s == il_construct(il_construct(RawIntr, 1), 2)
       IN  hprev = s.prev /\ hnext = s.next
    /\ payload = [h \in Hosts |-> h]
    /\ last = Idle
    /\ scan = NoScan
    /\ pre = IntrState

Init == InitPool \/ InitIntr

Next == PoolNext \/ IntrNext \/ Return

Spec == Init /\ [][Next]_vars

\* the driver's pool block alone, and its intrusive block alone
PoolSpec == InitPool /\ [][PoolNext \/ Return]_vars
IntrSpec == InitIntr /\ [][IntrNext \/ Return]_vars

(* ------------------- the pool list's whole life ----------------------- *)

\* the list goes out of scope at the end of the driver's pool block
Destroy(L) ==
    /\ PoolIdle
    /\ Call("~ll_list_pool", L, <<>>, destroy_list(PoolState, L))

\* the next call may start, unless the list was just destroyed
ReturnLive ==
    /\ last.op # "~ll_list_pool"
    /\ Return

LifeNext ==
    \/ PoolNext
    \/ \E L \in Driven : Destroy(L)
    \/ ReturnLive

LifeSpec == InitPool /\ [][LifeNext]_vars

(* ---------------------- demo_small, run as written -------------------- *)

\* static constexpr std::size_t N_SMALL
N_SMALL == 10
\* ll_list_pool<order> lst(16)
DemoCapacity == 16

\* the sentinel and the raw slab of one pool list of capacity c
RawPoolOf(c) ==
    [prev |-> [n \in {Sentinel(1)} \cup {Slot(1, i) : i \in 0..(c - 1)} |-> INDET],
     next |-> [n \in {Sentinel(1)} \cup {Slot(1, i) : i \in 0..(c - 1)} |-> INDET],
     value |-> [n \in {Slot(1, i) : i \in 0..(c - 1)} |-> NoValue],
     free_ |-> [L \in {1} |-> INDET],
     size_ |-> [L \in {1} |-> 0], cap_ |-> [L \in {1} |-> 0]]

RECURSIVE demo_fill(_, _, _)
\* for (i = ...; i < n; i++) lst.emplace_back(order{i});
demo_fill(s, i, n) ==
    IF i >= n THEN s ELSE demo_fill(emplace_back(s, 1, i).s, i + 1, n)

\* auto last = --lst.end(); lst.splice(lst.begin(), last);
demo_splice(s) == splice(s, 1, s.next[Sentinel(1)], s.prev[Sentinel(1)]).s

\* for (auto & [id] : lst) std::cout << id: the ids printed, for capacity c
Printed(s, c) ==
    LET F == Walk(s.next, s.next[Sentinel(1)], Sentinel(1), c + 1)
    IN  [i \in 1..Len(F) |-> IF F[i] \in DOMAIN s.value THEN s.value[F[i]] ELSE BAD]

DemoPoolInitial ==
    demo_fill(construct(RawPoolOf(DemoCapacity), 1, DemoCapacity), 0, N_SMALL)
DemoPoolSpliced == demo_splice(DemoPoolInitial)

\* std::vector<intrusive_order> orders: &orders[i].hook is hook i + 1
DemoHooks == 1..N_SMALL
\* reinterpret_cast<intrusive_order*>(h - offsetof(intrusive_order, hook))->id
DemoId(h) == h - 1

RawIntrOf(H) ==
    [prev |-> [n \in H \cup {ISentinel(1)} |-> NULL],
     next |-> [n \in H \cup {ISentinel(1)} |-> NULL]]

RECURSIVE demo_push(_, _)
\* for (i...) { orders.push_back({{}, i}); lst.push_back(&orders.back().hook); }
demo_push(s, i) ==
    IF i >= N_SMALL THEN s ELSE demo_push(push_back(s, 1, i + 1), i + 1)

\* if (!lst.empty()) lst.splice(lst.front(), lst.back());
demo_isplice(s) == IF empty(s, 1) THEN s ELSE il_splice(s, front(s, 1), back(s, 1))

\* for (h = lst.front(); h != lst.end(); h = h->next) std::cout << o->id
IPrinted(s) ==
    LET F == Walk(s.next, front(s, 1), end(1), N_SMALL + 1)
    IN  [i \in 1..Len(F) |-> DemoId(F[i])]

DemoIntrInitial == demo_push(il_construct(RawIntrOf(DemoHooks), 1), 0)
DemoIntrSpliced == demo_isplice(DemoIntrInitial)

(* --------------------- intrusive splice of an unlinked hook ----------- *)

\* splice(pos, h): pos on the ring of L, h a hook linked nowhere
ISpliceIn(L) ==
    /\ IntrIdle
    /\ \E pos \in Range(IPositions(L)), h \in Hooks :
           /\ ~is_linked(IntrState, h)
           /\ ICall("splice", L, <<pos, h>>, il_splice(IntrState, pos, h))

SpliceInNext ==
    \/ IntrNext
    \/ \E L \in IntrLists : ISpliceIn(L)
    \/ Return

SpliceInSpec == InitIntr /\ [][SpliceInNext]_vars

(* --------------------- range splice, pos within the range ------------- *)

\* l.splice(pos, first, last) with pos one of the elements of [first, last)
SpliceInside(L) ==
    /\ PoolIdle
    /\ LET P == Positions(L)
       IN  \E i \in 1..Len(P), j \in 1..Len(P), k \in 1..Len(P) :
             /\ i <= k /\ k < j
             /\ Call("splice_range", L, <<P[k], P[i], P[j]>>,
                     splice_range(PoolState, L, P[k], P[i], P[j]))

\* lst.splice(pos, first, last) with pos one of the hooks of [first, last)
ISpliceInside(L) ==
    /\ IntrIdle
    /\ LET P == IPositions(L)
       IN  \E i \in 1..Len(P), j \in 1..Len(P), k \in 1..Len(P) :
             /\ i <= k /\ k < j
             /\ ICall("splice_range", L, <<P[k], P[i], P[j]>>,
                      il_splice_range(IntrState, P[k], P[i], P[j]))

\* following next from the sentinel comes back to the sentinel
Closed ==
    IF scope = "pool" THEN \A L \in Driven : BAD \notin Range(Fwd(L))
    ELSE \A L \in IntrLists : BAD \notin Range(IFwd(L))

\* the caller goes on to its next call only while its lists can be iterated
ReturnClosed ==
    /\ Closed
    /\ Return

InsideNext ==
    \/ \E L \in Driven : EmplaceBack(L)
    \/ \E L \in Driven : Erase(L)
    \/ \E L \in Driven : SpliceInside(L)
    \/ \E L \in IntrLists : PushBack(L)
    \/ \E L \in IntrLists : Remove(L)
    \/ \E L \in IntrLists : ISpliceInside(L)
    \/ ReturnClosed

InsideSpec == Init /\ [][InsideNext]_vars

(* --------------------- the intrusive list's whole life ---------------- *)

\* an intrusive_list goes out of scope while the hosts live on
IDestroy(L) ==
    /\ IntrIdle
    /\ ICall("~intrusive_list", L, <<>>, il_destroy(IntrState, L))

\* the next call may start, unless a list was just destroyed
IReturnLive ==
    /\ last.op # "~intrusive_list"
    /\ Return

DtorNext ==
    \/ IntrNext
    \/ \E L \in IntrLists : IDestroy(L)
    \/ IReturnLive

DtorSpec == InitIntr /\ [][DtorNext]_vars

(* --------------------- two pool lists, nodes moved across ------------- *)

\* ll_list_pool<order> l1(CrossCap), l2(CrossCap);
InitCross ==
    /\ scope = "pool"
    /\ SetPool(construct(construct(RawPool, 1, CrossCap), 2, CrossCap))
    /\ hprev = RawIntr.prev /\ hnext = RawIntr.next
    /\ payload = [h \in Hosts |-> h]
    /\ last = Idle
    /\ scan = NoScan
    /\ pre = PoolState

\* erase(it) on list L, it naming an element met on L's ring; size_ is a
\* std::size_t, the call is made only while it is positive
XErase(L) ==
    /\ size_[L] > 0
    /\ Erase(L)

\* l.splice(pos, what): pos a position of list L, what an element linked in
\* the other list
XSplice(L) ==
    /\ PoolIdle
    /\ \E M \in PoolLists \ {L} :
         \E pos \in Range(Positions(L)), x \in Range(Fwd(M)) :
             Call("splice", L, <<pos, x>>, splice(PoolState, L, pos, x))

\* l.splice(pos, first, last): pos a position of list L, [first, last) a range
\* of the other list
XSpliceRange(L) ==
    /\ PoolIdle
    /\ \E M \in PoolLists \ {L} :
         LET P == Positions(M)
         IN  \E i \in 1..Len(P), j \in 1..Len(P), pos \in Range(Positions(L)) :
               /\ i < j
               /\ Call("splice_range", L, <<pos, P[i], P[j]>>,
                       splice_range(PoolState, L, pos, P[i], P[j]))

CrossNext ==
    \/ \E L \in PoolLists : EmplaceBack(L)
    \/ \E L \in PoolLists : XErase(L)
    \/ \E L \in PoolLists : XSplice(L)
    \/ \E L \in PoolLists : XSpliceRange(L)
    \/ Return

CrossSpec == InitCross /\ [][CrossNext]_vars

(* ====================== the longest-token scan ======================== *)

\* the character codes the scan and its inputs name
Ascii == [space |-> 32, zero |-> 48, at |-> 64, A |-> 65, Z |-> 90, lbracket |-> 91,
          backtick |-> 96, a |-> 97, z |-> 122, lbrace |-> 123, nul |-> 0,
          high |-> 200, highSigned |-> -56, charMin |-> -128, ucharMax |-> 255]

\* every value a char can hold, char being signed or unsigned as the build has it
CharValues == Ascii.charMin..Ascii.ucharMax

\* s[i] | 32 on the promoted int, stored back into a char: bit 5 is set
Or32_keep(b) == b
Or32(b) == IF (b % 64) >= Ascii.space THEN b ELSE b + Ascii.space

\* s[i] = (i % 50 == 0) ? ' ' : char('a' + (i % 26)), for i = 0 .. n-1
Synthetic(n) ==
    [k \in 1..n |-> IF (k - 1) % 50 = 0 THEN Ascii.space ELSE Ascii.a + ((k - 1) % 26)]

\* "this,is.a-very...longWORD123with interruptions"
Example ==
    <<116, 104, 105, 115, 44, 105, 115, 46, 97, 45, 118, 101,
      114, 121, 46, 46, 46, 108, 111, 110, 103, 87, 79, 82,
      68, 49, 50, 51, 119, 105, 116, 104, 32, 105, 110, 116,
      101, 114, 114, 117, 112, 116, 105, 111, 110, 115>>

\* mutant of scan_step: current is not reset by a character that is no letter
scan_step_no_reset(st) ==
    LET c == Or32(st.s[st.i + 1])
        isLetter == c >= Ascii.a /\ c <= Ascii.z
        cur == IF isLetter THEN st.current + 1 ELSE st.current
    IN  [st EXCEPT !.current = cur,
                   !.best = IF cur > @ THEN cur ELSE @,
                   !.i = @ + 1]

\* one turn of the loop: char c = s[i] | 32; isLetter; current; best; i++
scan_step(st) ==
    LET c == Or32(st.s[st.i + 1])
        isLetter == c >= Ascii.a /\ c <= Ascii.z
        cur == IF isLetter THEN st.current + 1 ELSE 0
    IN  [st EXCEPT !.current = cur,
                   !.best = IF cur > @ THEN cur ELSE @,
                   !.i = @ + 1]

\* the characters the short inputs are made of: both ends of A-Z and a-z, their
\* outer neighbours, a digit, a space, NUL and a byte above 127 read as
\* unsigned and as signed char
ScanBytes ==
    {Ascii.at, Ascii.A, Ascii.Z, Ascii.lbracket, Ascii.backtick, Ascii.a, Ascii.z,
     Ascii.lbrace, Ascii.zero, Ascii.space, Ascii.nul, Ascii.high, Ascii.highSigned}

ScanInputs ==
    UNION {[1..n -> ScanBytes] : n \in 0..MaxLen} \cup {Example, Synthetic(ScanN)}

\* int current = 0; int best = 0; before the loop's first turn
InitScan ==
    /\ scope = "scan"
    /\ SetPool(RawPool)
    /\ hprev = RawIntr.prev /\ hnext = RawIntr.next
    /\ payload = [h \in Hosts |-> h]
    /\ last = Idle
    /\ pre = PoolState
    /\ \E inp \in ScanInputs :
         scan = [s |-> inp, i |-> 0, current |-> 0, best |-> 0, done |-> FALSE]

\* for (int i = 0; i < N; i++) { ... }
ScanStep ==
    /\ scope = "scan"
    /\ scan.i < Len(scan.s)
    /\ scan' = scan_step(scan)
    /\ UNCHANGED <<scope, prev, next, value, free_, size_, cap_, hprev, hnext,
                   payload, last, pre>>

\* std::cout << "Longest valid token length = " << best
ScanPrint ==
    /\ scope = "scan"
    /\ scan.i = Len(scan.s)
    /\ ~scan.done
    /\ scan' = [scan EXCEPT !.done = TRUE]
    /\ UNCHANGED <<scope, prev, next, value, free_, size_, cap_, hprev, hnext,
                   payload, last, pre>>

ScanNext == ScanStep \/ ScanPrint

ScanSpec == InitScan /\ [][ScanNext]_vars

(* ====================== helpers of the properties ===================== *)

InPool == scope = "pool"
InIntr == scope = "intrusive"
\* the slots the constructor of list L put in its slab
SlabOf(L) == {Slot(L, i) : i \in 0..(cap_[L] - 1)}
\* the stored values in traversal order
ValuesOf(s, L) == [i \in 1..Len(FwdOf(s, L)) |-> s.value[FwdOf(s, L)[i]]]
\* s with the sequence r put in front of element pos (at the end when pos
\* is not an element of s, as for end())
InsertBefore(s, pos, r) ==
    IF \E i \in 1..Len(s) : s[i] = pos
    THEN SubSeq(s, 1, Index(s, pos) - 1) \o r \o SubSeq(s, Index(s, pos), Len(s))
    ELSE s \o r
\* the elements from a up to, not including, b in sequence s followed by sentinel
RangeOf(s, a, b) ==
    IF \E i \in 1..Len(s) : s[i] = b
    THEN SubSeq(s, Index(s, a), Index(s, b) - 1)
    ELSE SubSeq(s, Index(s, a), Len(s))
RECURSIVE EmplaceBackN(_, _, _)
\* n more emplace_back calls on state s: TRUE when none throws
EmplaceBackN(s, L, n) ==
    IF n = 0 THEN TRUE
    ELSE LET r == emplace_back(s, L, 1)
         IN  ~r.exc /\ EmplaceBackN(r.s, L, n - 1)

(* ============================ properties ============================== *)

\* C1: after any sequence of emplace_front, emplace_back, erase, clear and
\* splices on the pool list, size() is the number of nodes met walking next
\* from begin() to end(), and the number met walking prev from --end() to end().
C1_SizeIsTraversalCount ==
    InPool => \A L \in Driven :
        /\ BAD \notin Range(Fwd(L))
        /\ BAD \notin Range(Bwd(L))
        /\ Len(Fwd(L)) = size_[L]
        /\ Len(Bwd(L)) = size_[L]

C1_Witness ==
    /\ InPool /\ last.op = "splice_range" /\ size_[1] = 3
    /\ last.args[2] # last.args[3]
    /\ Fwd(1) # FwdOf(pre, 1)

\* C2: every slot of the slab is either on the free chain or linked in the
\* ring, never both and never neither; no slot is twice on the free chain;
\* free-chain length + size() = capacity; the capacity never changes.
C2_ArenaPartition ==
    InPool => \A L \in Driven :
        /\ BAD \notin Range(FreeChain(L))
        /\ NoDup(FreeChain(L))
        /\ NoDup(Fwd(L))
        /\ Range(FreeChain(L)) \cap Range(Fwd(L)) = {}
        /\ Range(FreeChain(L)) \cup Range(Fwd(L)) = SlabOf(L)
        /\ Len(FreeChain(L)) + size_[L] = cap_[L]
        /\ cap_[L] = pre.cap_[L]

C2_Witness ==
    /\ InPool /\ last.op = "erase"
    /\ Len(FreeChain(1)) = 2 /\ Len(Fwd(1)) = 1
    /\ FreeChain(1)[1] > FreeChain(1)[2] /\ FreeChain(1)[1] # Slot(1, 2)

\* C3: in both list variants, following next from the sentinel comes back to
\* the sentinel after exactly (number of linked elements + 1) steps, following
\* prev does the same and meets the elements in exactly the reverse order, and
\* an empty list has sentinel.next == sentinel.prev == &sentinel.
C3_SentinelRing ==
    /\ InPool => \A L \in Driven :
          /\ BAD \notin Range(Fwd(L))
          /\ Len(<<Sentinel(L)>> \o Fwd(L)) = size_[L] + 1
          /\ Bwd(L) = Reverse(Fwd(L))
          /\ size_[L] = 0 => next[Sentinel(L)] = Sentinel(L) /\ prev[Sentinel(L)] = Sentinel(L)
    /\ InIntr =>
          /\ \A L \in IntrLists :
                /\ Range(IFwd(L)) \subseteq Hooks
                /\ NoDup(IFwd(L))
                /\ IBwd(L) = Reverse(IFwd(L))
                /\ \A M \in IntrLists : M # L => Range(IFwd(L)) \cap Range(IFwd(M)) = {}
                /\ Len(IFwd(L)) = 0 =>
                      hnext[ISentinel(L)] = ISentinel(L) /\ hprev[ISentinel(L)] = ISentinel(L)
          /\ UNION {Range(IFwd(L)) : L \in IntrLists} = {h \in Hooks : is_linked(IntrState, h)}

C3_Witness ==
    /\ InIntr /\ last.op = "splice_range"
    /\ Len(IFwd(1)) = 3 /\ Len(IFwd(2)) = 1
    /\ Len(IFwdOf(pre, 1)) = 1

\* C4: on a pool list that already holds capacity-many elements, a further
\* emplace_front or emplace_back throws std::bad_alloc and leaves size(), the
\* traversal order, every stored value and the empty free chain as they were.
C4_Exhaustion ==
    (InPool /\ last.op \in {"emplace_front", "emplace_back"}
       /\ pre.size_[last.list] = pre.cap_[last.list]) =>
        /\ last.exc
        /\ PoolState = pre
        /\ FreeChain(last.list) = <<>>
        /\ Len(Fwd(last.list)) = cap_[last.list]
        /\ \A n \in Range(Fwd(last.list)) : value[n] \in Values

C4_Witness ==
    /\ InPool /\ last.op = "emplace_back" /\ last.exc
    /\ cap_[1] = 3 /\ size_[1] = 3
    /\ Range(ValuesOf(PoolState, 1)) = Values

\* the four links splice(P, X) is said to leave, in heap h, for X linked
\* between A and B and P preceded by C in heap s
SpliceLinks(h, s, P, X) ==
    /\ h.next[s.prev[X]] = s.next[X]
    /\ h.prev[X] = s.prev[P]
    /\ h.next[X] = P
    /\ h.prev[P] = X

\* every element but X keeps its place relative to the others
OthersKeepOrder(X) ==
    /\ InPool => Without(Fwd(1), {X}) = Without(FwdOf(pre, 1), {X})
    /\ InIntr => \A M \in IntrLists :
                    Without(IFwd(M), {X}) = Without(IFwdOf(pre, M), {X})

Heap == IF InPool THEN [prev |-> prev, next |-> next] ELSE IntrState

\* C5 as the specification states it: for every destination P # X,
\* splice(P, X) yields A.next == B, X.prev == C, X.next == P, P.prev == X.
C5_Original ==
    (last.op = "splice" /\ last.args[1] # last.args[2]) =>
        /\ SpliceLinks(Heap, pre, last.args[1], last.args[2])
        /\ OthersKeepOrder(last.args[2])

\* C5, amended: for every destination P # X that is not X's successor B,
\* splice(P, X) yields A.next == B, X.prev == C, X.next == P, P.prev == X;
\* when P is X's successor (so that C is X itself) every link field is left
\* as it was, X staying between A and P; in both cases the other units keep
\* their relative order.
C5_SpliceOne ==
    (last.op = "splice" /\ last.args[1] # last.args[2]) =>
        LET P == last.args[1]
            X == last.args[2]
        IN  /\ P # pre.next[X] => SpliceLinks(Heap, pre, P, X)
            /\ P = pre.next[X] =>
                  /\ Heap.prev = pre.prev /\ Heap.next = pre.next
                  /\ Heap.next[pre.prev[X]] = X /\ Heap.prev[X] = pre.prev[X]
                  /\ Heap.next[X] = P /\ Heap.prev[P] = X
            /\ OthersKeepOrder(X)

C5_Witness ==
    /\ InPool /\ last.op = "splice" /\ size_[1] = 3
    /\ last.args[1] # last.args[2]
    /\ last.args[1] # pre.next[last.args[2]]
    /\ last.args[1] = FwdOf(pre, 1)[2] /\ last.args[2] = FwdOf(pre, 1)[3]
    /\ Fwd(1) = <<FwdOf(pre, 1)[1], FwdOf(pre, 1)[3], FwdOf(pre, 1)[2]>>

\* C6: splice(pos, first, last) with first # last and pos outside
\* [first, last) puts the units of [first, last) right before pos in their
\* order, closes the gap they left and keeps the order of all other units
\* (pos may be last; on the intrusive list pos may be on another list);
\* first == last changes nothing.
C6_SpliceRange ==
    last.op = "splice_range" =>
        LET pos == last.args[1]
            a == last.args[2]
            b == last.args[3]
        IN  /\ (InPool /\ a = b) => PoolState = pre
            /\ (InIntr /\ a = b) => IntrState = pre
            /\ (InPool /\ a # b) =>
                  LET R == RangeOf(FwdOf(pre, 1), a, b)
                  IN  /\ Fwd(1) = InsertBefore(Without(FwdOf(pre, 1), Range(R)), pos, R)
                      /\ Bwd(1) = Reverse(Fwd(1))
            /\ (InIntr /\ a # b) =>
                  LET M == CHOOSE K \in IntrLists : a \in Range(IFwdOf(pre, K))
                      R == RangeOf(IFwdOf(pre, M), a, b)
                  IN  \A K \in IntrLists :
                        /\ IFwd(K) = IF K = last.list
                                      THEN InsertBefore(Without(IFwdOf(pre, K), Range(R)), pos, R)
                                      ELSE Without(IFwdOf(pre, K), Range(R))
                        /\ IBwd(K) = Reverse(IFwd(K))

C6_Witness ==
    /\ InIntr /\ last.op = "splice_range" /\ last.list = 1
    /\ Len(IFwdOf(pre, 1)) = 2 /\ Len(IFwdOf(pre, 2)) = 2
    /\ last.args[1] = IFwdOf(pre, 1)[2]
    /\ last.args[2] = IFwdOf(pre, 2)[1] /\ last.args[3] = ISentinel(2)
    /\ IFwd(1) = <<IFwdOf(pre, 1)[1], IFwdOf(pre, 2)[1], IFwdOf(pre, 2)[2], IFwdOf(pre, 1)[2]>>
    /\ IFwd(2) = <<>>

\* C7: splice(pos, pos) on the pool list and splice(hook, hook) on the
\* intrusive list change no link field, no size counter, no free chain entry
\* and no stored value.
C7_SpliceSelfNoOp ==
    (last.op = "splice" /\ last.args[1] = last.args[2]) =>
        /\ InPool => PoolState = pre
        /\ InIntr => IntrState = pre

C7_Witness ==
    /\ InPool /\ last.op = "splice" /\ last.args[1] = last.args[2]
    /\ size_[1] = 3 /\ last.args[1] = Fwd(1)[2]

\* C8: clear() on the pool list leaves size() == 0, begin() == end() and a
\* free chain holding each slot of the slab exactly once, so that capacity-many
\* further emplace calls succeed.
C8_ClearRestoresPool ==
    (InPool /\ last.op = "clear") =>
        LET L == last.list
        IN  /\ size_[L] = 0
            /\ next[Sentinel(L)] = Sentinel(L)
            /\ prev[Sentinel(L)] = Sentinel(L)
            /\ NoDup(FreeChain(L))
            /\ Range(FreeChain(L)) = SlabOf(L)
            /\ Len(FreeChain(L)) = cap_[L]
            /\ EmplaceBackN(PoolState, L, cap_[L])
            /\ emplace_back(PoolState, L, 1).exc = (cap_[L] = 0)

C8_Witness ==
    /\ InPool /\ last.op = "clear"
    /\ pre.size_[1] = 2 /\ cap_[1] = 3
    /\ FreeChain(1) # FreeChainOf(construct(RawPool, 1, 3), 1)

\* C9: on a pool list that is not full, emplace_front(v) turns sequence S into
\* [v] + S and returns begin(), emplace_back(v) turns S into S + [v] and
\* returns --end(); the returned iterator dereferences to v, size() grows by
\* one, exactly one slot leaves the free chain, and every element that was
\* there is still the same node with the same value.
C9_Emplace ==
    (InPool /\ last.op \in {"emplace_front", "emplace_back"}
       /\ pre.size_[last.list] < pre.cap_[last.list]) =>
        LET L == last.list
            v == last.args[1]
            n == last.ret
        IN  /\ ~last.exc
            /\ last.op = "emplace_front" =>
                  /\ Fwd(L) = <<n>> \o FwdOf(pre, L)
                  /\ ValuesOf(PoolState, L) = <<v>> \o ValuesOf(pre, L)
                  /\ n = next[Sentinel(L)]
            /\ last.op = "emplace_back" =>
                  /\ Fwd(L) = FwdOf(pre, L) \o <<n>>
                  /\ ValuesOf(PoolState, L) = ValuesOf(pre, L) \o <<v>>
                  /\ n = prev[Sentinel(L)]
            /\ Bwd(L) = Reverse(Fwd(L))
            /\ value[n] = v
            /\ size_[L] = pre.size_[L] + 1
            /\ FreeChainOf(pre, L) = <<n>> \o FreeChain(L)
            /\ \A m \in Range(FwdOf(pre, L)) : value[m] = pre.value[m]

C9_Witness ==
    /\ InPool /\ last.op = "emplace_front" /\ ~last.exc
    /\ size_[1] = 3 /\ last.args[1] = 2
    /\ ValuesOf(PoolState, 1) = <<2, 1, 1>>

\* C10: erase(it) on a live element removes exactly that element, keeps the
\* order, node identity and values of the others, returns the element that
\* followed it (end() when it was the last), lowers size() by one and puts
\* exactly that slot back on the free chain.
C10_Erase ==
    (InPool /\ last.op = "erase") =>
        LET L == last.list
            n == last.args[1]
            F == FwdOf(pre, L)
        IN  /\ Fwd(L) = Without(F, {n})
            /\ Len(Fwd(L)) = Len(F) - 1
            /\ Bwd(L) = Reverse(Fwd(L))
            /\ \A m \in Range(Fwd(L)) : value[m] = pre.value[m]
            /\ last.ret = IF Index(F, n) < Len(F) THEN F[Index(F, n) + 1] ELSE Sentinel(L)
            /\ size_[L] = pre.size_[L] - 1
            /\ FreeChain(L) = <<n>> \o FreeChainOf(pre, L)

C10_Witness ==
    /\ InPool /\ last.op = "erase" /\ pre.size_[1] = 3
    /\ last.args[1] = FwdOf(pre, 1)[2]
    /\ last.ret = FwdOf(pre, 1)[3]
    /\ Range(ValuesOf(PoolState, 1)) = Values

\* what a capacity-4 pool list prints after emplace_back(1), (2), (3) and
\* after the following splice(begin(), --end())
WorkedExamplePrints ==
    LET s == demo_fill(construct(RawPoolOf(4), 1, 4), 1, 4)
    IN  <<Printed(s, 4), Printed(demo_splice(s), 4)>>
\* what the two blocks of demo_small print before and after their splice
DemoPoolPrints ==
    <<Printed(DemoPoolInitial, DemoCapacity), Printed(DemoPoolSpliced, DemoCapacity)>>
DemoIntrPrints == <<IPrinted(DemoIntrInitial), IPrinted(DemoIntrSpliced)>>

\* the sequence s with its last element moved to the front
LastToFront(s) == IF s = <<>> THEN s ELSE <<s[Len(s)]>> \o SubSeq(s, 1, Len(s) - 1)

\* C11: on a list holding e1..en, n >= 1, splice(begin(), --end()) on the pool
\* list and splice(front(), back()) on the intrusive list yield the traversal
\* en, e1, ..., e(n-1); a capacity-4 pool list after emplace_back(1), (2), (3)
\* prints 1 2 3 and then 3 1 2; demo_small prints 0..9 and then 9 0 1 .. 8 for
\* both lists.
C11_MoveLastToFront ==
    /\ (InPool /\ last.op = "splice"
          /\ last.args = <<pre.next[Sentinel(last.list)], pre.prev[Sentinel(last.list)]>>) =>
          /\ Len(FwdOf(pre, last.list)) >= 1
          /\ Fwd(last.list) = LastToFront(FwdOf(pre, last.list))
          /\ ValuesOf(PoolState, last.list) = LastToFront(ValuesOf(pre, last.list))
          /\ Bwd(last.list) = Reverse(Fwd(last.list))
    /\ (InIntr /\ last.op = "splice"
          /\ last.args = <<front(pre, last.list), back(pre, last.list)>>) =>
          /\ Len(IFwdOf(pre, last.list)) >= 1
          /\ IFwd(last.list) = LastToFront(IFwdOf(pre, last.list))
          /\ IBwd(last.list) = Reverse(IFwd(last.list))
    /\ WorkedExamplePrints = <<<<1, 2, 3>>, <<3, 1, 2>>>>
    /\ DemoPoolPrints = <<<<0, 1, 2, 3, 4, 5, 6, 7, 8, 9>>, <<9, 0, 1, 2, 3, 4, 5, 6, 7, 8>>>>
    /\ DemoIntrPrints = <<<<0, 1, 2, 3, 4, 5, 6, 7, 8, 9>>, <<9, 0, 1, 2, 3, 4, 5, 6, 7, 8>>>>

C11_Witness ==
    /\ InPool /\ last.op = "splice" /\ pre.size_[1] = 3
    /\ last.args = <<pre.next[Sentinel(1)], pre.prev[Sentinel(1)]>>
    /\ ValuesOf(pre, 1) = <<1, 1, 2>>
    /\ ValuesOf(PoolState, 1) = <<2, 1, 1>>
    /\ Fwd(1) = <<FwdOf(pre, 1)[3], FwdOf(pre, 1)[1], FwdOf(pre, 1)[2]>>

\* the ring of intrusive list L is well-formed in hook state s
IRingOk(s, L) ==
    /\ Range(IFwdOf(s, L)) \subseteq Hooks
    /\ NoDup(IFwdOf(s, L))
    /\ IBwdOf(s, L) = Reverse(IFwdOf(s, L))
    /\ s.next[s.prev[ISentinel(L)]] = ISentinel(L)
    /\ s.prev[s.next[ISentinel(L)]] = ISentinel(L)

\* C12: intrusive splice(pos, h) with h # pos, h linked in list L2 and pos on
\* the ring of L1 (the same list or the other one, pos possibly end()) leaves h
\* immediately before pos on L1's ring and off L2's ring when L2 # L1, keeps
\* the relative order of all other hooks in both lists, and leaves both rings
\* well-formed.
C12_IntrusiveSplice ==
    (InIntr /\ last.op = "splice" /\ last.args[1] # last.args[2]
       /\ \E L2 \in IntrLists : last.args[2] \in Range(IFwdOf(pre, L2))) =>
        LET pos == last.args[1]
            h == last.args[2]
            L1 == last.list
        IN  /\ hnext[h] = pos /\ hprev[pos] = h
            /\ IFwd(L1) = InsertBefore(Without(IFwdOf(pre, L1), {h}), pos, <<h>>)
            /\ \A L2 \in IntrLists \ {L1} :
                  /\ h \notin Range(IFwd(L2))
                  /\ IFwd(L2) = Without(IFwdOf(pre, L2), {h})
            /\ \A L \in IntrLists : IRingOk(IntrState, L)

C12_Witness ==
    /\ InIntr /\ last.op = "splice" /\ last.list = 1
    /\ Len(IFwdOf(pre, 1)) = 1 /\ Len(IFwdOf(pre, 2)) = 3
    /\ last.args = <<ISentinel(1), IFwdOf(pre, 2)[2]>>
    /\ IFwd(1) = <<IFwdOf(pre, 1)[1], IFwdOf(pre, 2)[2]>>
    /\ IFwd(2) = <<IFwdOf(pre, 2)[1], IFwdOf(pre, 2)[3]>>

\* the other hooks embedded in the host of hook h
Siblings(h) == {g \in Hooks : HostOf(g) = HostOf(h) /\ g # h}

\* the payload of every host is what its construction stored
PayloadKept == payload = [c \in Hosts |-> c]

\* remove(h) on a linked hook: h is left with both fields null and its former
\* neighbours a, b are joined
RemoveJoins(h) ==
    /\ ~is_linked(IntrState, h)
    /\ hprev[h] = NULL /\ hnext[h] = NULL
    /\ hnext[pre.prev[h]] = pre.next[h]
    /\ hprev[pre.next[h]] = pre.prev[h]

OnSomeRing(s) ==
    UNION {Range(IFwdOf(s, L)) \cap Range(IBwdOf(s, L)) : L \in IntrLists}
OnAnyWalk(s) ==
    UNION {Range(IFwdOf(s, L)) \cup Range(IBwdOf(s, L)) : L \in IntrLists}

\* C14: under any sequence of push_front, push_back, remove, splice, range
\* splice and clear calls that respect the preconditions, every hook has
\* either both link fields null or both non-null, is_linked() is true exactly
\* for the hooks on some list's ring, a fresh hook is unlinked and becomes
\* linked only by being pushed, and a removed hook is unlinked.
C14_HookStates ==
    /\ \A h \in Hooks : RawIntr.prev[h] = NULL /\ RawIntr.next[h] = NULL
    /\ InIntr =>
          /\ LET ring == OnSomeRing(IntrState)
                 met == OnAnyWalk(IntrState)
             IN  \A h \in Hooks :
                    /\ (hprev[h] = NULL) <=> (hnext[h] = NULL)
                    /\ is_linked(IntrState, h) => h \in ring
                    /\ ~is_linked(IntrState, h) => h \notin met
                    /\ (~is_linked(pre, h) /\ is_linked(IntrState, h)) =>
                          last.op \in {"push_front", "push_back"} /\ last.args[1] = h
          /\ last.op = "remove" =>
                hprev[last.args[1]] = NULL /\ hnext[last.args[1]] = NULL
          /\ last.op = "clear" =>
                \A h \in Range(IFwdOf(pre, last.list)) : hprev[h] = NULL /\ hnext[h] = NULL

\* a linked hook of list 2 is removed while list 1 holds a hook and another
\* hook is unlinked
C14_Witness ==
    /\ InIntr /\ last.op = "remove" /\ is_linked(pre, last.args[1])
    /\ last.args[1] \in Range(IFwdOf(pre, 2))
    /\ ~is_linked(IntrState, last.args[1])
    /\ \E h \in Hooks : is_linked(IntrState, h) /\ h \in Range(IFwd(1))
    /\ \E h \in Hooks \ {last.args[1]} : ~is_linked(IntrState, h)

\* the hooks through which hosts join list L: every host's first hook h1 for
\* list 1, every host's second hook h2 for list 2
MemberHooks(L) == {h \in Hooks : \E c \in Hosts : h = 2 * (c - 1) + L /\ HostOf(h) = c}

\* every list holds only the hooks meant for it
Disciplined(s) == \A L \in IntrLists : Range(IFwdOf(s, L)) \subseteq MemberHooks(L)

\* the hooks and positions the last call was given
HookArgs == IF last.op = "clear" THEN {} ELSE Range(last.args)

\* C15: with two intrusive lists and hosts embedding two hooks h1 and h2, every
\* hook is on the ring of at most one list at any time, and while list 1 is
\* populated through h1 hooks and list 2 through h2 hooks (a host may then be
\* on both at once) every operation applied to one list through its own hooks
\* leaves the other list's hooks, sentinel and traversal order unchanged.
C15_MultiList ==
    InIntr =>
        /\ LET F == [L \in IntrLists |-> IFwd(L)]
           IN  /\ \A L \in IntrLists : NoDup(F[L])
               /\ \A L \in IntrLists : \A M \in IntrLists \ {L} :
                      Range(F[L]) \cap Range(F[M]) = {}
        /\ (last.op # "none" /\ Disciplined(pre)
              /\ HookArgs \subseteq MemberHooks(last.list) \cup {ISentinel(last.list)}) =>
              \A M \in IntrLists \ {last.list} :
                  /\ IFwd(M) = IFwdOf(pre, M)
                  /\ \A g \in MemberHooks(M) \cup {ISentinel(M)} :
                        hprev[g] = pre.prev[g] /\ hnext[g] = pre.next[g]

\* host 1 is on list 1 through hook 1 and on list 2 through hook 2 while
\* splice(h1 of host 1, h1 of host 2) reorders list 1
C15_Witness ==
    /\ InIntr /\ last.op = "splice" /\ last.list = 1 /\ last.args = <<1, 3>>
    /\ HostOf(1) = HostOf(2)
    /\ IFwdOf(pre, 1) = <<1, 3>> /\ IFwdOf(pre, 2) = <<2, 4>>
    /\ IFwd(1) = <<3, 1>> /\ IFwd(2) = <<2, 4>>

\* C16: push_front(h) / push_back(h) with h unlinked leaves h linked, makes
\* front() == h (push_front) or back() == h (push_back), keeps the hooks that
\* were on the list in their order after h (push_front) or before h
\* (push_back), and leaves the ring well-formed; the other list is untouched.
C16_Push ==
    (InIntr /\ last.op \in {"push_front", "push_back"}
       /\ ~is_linked(pre, last.args[1])) =>
        LET L == last.list
            h == last.args[1]
        IN  /\ is_linked(IntrState, h)
            /\ last.op = "push_front" =>
                  /\ front(IntrState, L) = h
                  /\ IFwd(L) = <<h>> \o IFwdOf(pre, L)
            /\ last.op = "push_back" =>
                  /\ back(IntrState, L) = h
                  /\ IFwd(L) = IFwdOf(pre, L) \o <<h>>
            /\ Len(IFwd(L)) = Len(IFwdOf(pre, L)) + 1
            /\ IRingOk(IntrState, L)
            /\ \A M \in IntrLists \ {L} : IFwd(M) = IFwdOf(pre, M) /\ IRingOk(IntrState, M)

C16_Witness ==
    /\ InIntr /\ last.op = "push_back" /\ last.list = 2
    /\ Len(IFwdOf(pre, 2)) = 2 /\ Len(IFwdOf(pre, 1)) = 1
    /\ IFwd(2) = IFwdOf(pre, 2) \o <<last.args[1]>>
    /\ back(IntrState, 2) = last.args[1] /\ front(IntrState, 2) # last.args[1]

\* C17: intrusive clear() on a list with n linked hooks ends after exactly n
\* removals of the front hook, leaves empty() true and the sentinel linked to
\* itself, leaves every former member unlinked, and changes no payload and no
\* link field of a hook or sentinel that was not on this list.
C17_IntrusiveClear ==
    (InIntr /\ last.op = "clear") =>
        LET L == last.list
            F == IFwdOf(pre, L)
        IN  /\ last.args[1] = Len(F)
            /\ empty(IntrState, L)
            /\ hnext[ISentinel(L)] = ISentinel(L) /\ hprev[ISentinel(L)] = ISentinel(L)
            /\ \A h \in Range(F) :
                  ~is_linked(IntrState, h) /\ hprev[h] = NULL /\ hnext[h] = NULL
            /\ PayloadKept
            /\ \A n \in IntrNodes \ (Range(F) \cup {ISentinel(L)}) :
                  hprev[n] = pre.prev[n] /\ hnext[n] = pre.next[n]

C17_Witness ==
    /\ InIntr /\ last.op = "clear" /\ last.list = 1 /\ last.args[1] = 3
    /\ Len(IFwdOf(pre, 1)) = 3 /\ Len(IFwdOf(pre, 2)) = 1
    /\ IFwd(1) = <<>> /\ IFwd(2) = IFwdOf(pre, 2)

\* C18: splice of one node and of a range within one pool list changes
\* neither size(), nor the free chain, nor the set of live nodes, nor any
\* stored value or the node holding it; only prev/next fields change.
C18_SpliceRelinksOnly ==
    (InPool /\ last.op \in {"splice", "splice_range"}) =>
        LET L == last.list
        IN  /\ size_ = pre.size_ /\ cap_ = pre.cap_
            /\ free_ = pre.free_
            /\ FreeChain(L) = FreeChainOf(pre, L)
            /\ \A n \in Range(FreeChain(L)) : next[n] = pre.next[n]
            /\ Range(Fwd(L)) = Range(FwdOf(pre, L))
            /\ Len(Fwd(L)) = Len(FwdOf(pre, L))
            /\ value = pre.value
            /\ [PoolState EXCEPT !.prev = pre.prev, !.next = pre.next] = pre

C18_Witness ==
    /\ InPool /\ last.op = "splice" /\ cap_[1] = 3 /\ size_[1] = 2
    /\ Len(FreeChain(1)) = 1
    /\ ValuesOf(pre, 1) = <<1, 2>> /\ ValuesOf(PoolState, 1) = <<2, 1>>
    /\ Fwd(1) = Reverse(FwdOf(pre, 1))

\* the units of [a, b) as the walks before the call met them
RangeBefore(a, b) ==
    IF InPool THEN RangeOf(FwdOf(pre, 1), a, b)
    ELSE RangeOf(IFwdOf(pre, CHOOSE K \in IntrLists : a \in Range(IFwdOf(pre, K))), a, b)

\* C19: splice(pos, first, last) with first # last writes, whatever the length
\* of the range, at most the next field of first's old predecessor, of pos's
\* old predecessor and of the range's last unit tail, and the prev field of
\* first, last and pos; every link between two consecutive units of
\* [first, last) is as it was.
C19_RangeSpliceBoundary ==
    (last.op = "splice_range" /\ last.args[2] # last.args[3]) =>
        LET pos == last.args[1]
            a == last.args[2]
            b == last.args[3]
            tail == pre.prev[b]
            R == RangeBefore(a, b)
        IN  /\ \A n \in DOMAIN Heap.next :
                  n \notin {pre.prev[a], pre.prev[pos], tail} => Heap.next[n] = pre.next[n]
            /\ \A n \in DOMAIN Heap.prev :
                  n \notin {a, b, pos} => Heap.prev[n] = pre.prev[n]
            /\ R[Len(R)] = tail
            /\ \A i \in 1..(Len(R) - 1) :
                  /\ Heap.next[R[i]] = R[i + 1] /\ pre.next[R[i]] = R[i + 1]
                  /\ Heap.prev[R[i + 1]] = R[i] /\ pre.prev[R[i + 1]] = R[i]

\* three hooks of list 2 moved in front of the only hook of list 1
C19_Witness ==
    /\ InIntr /\ last.op = "splice_range" /\ last.list = 1
    /\ Len(IFwdOf(pre, 2)) = 3 /\ Len(IFwdOf(pre, 1)) = 1
    /\ last.args = <<IFwdOf(pre, 1)[1], IFwdOf(pre, 2)[1], ISentinel(2)>>
    /\ IFwd(1) = IFwdOf(pre, 2) \o IFwdOf(pre, 1)
    /\ hnext[IFwdOf(pre, 2)[1]] = IFwdOf(pre, 2)[2]
    /\ hnext[IFwdOf(pre, 2)[2]] = IFwdOf(pre, 2)[3]

\* C20: after any sequence of operations that respect the preconditions,
\* front() == end() iff empty() iff back() == end() iff no hook is linked on
\* this list's ring.
C20_EmptyIffFrontIsEnd ==
    InIntr => \A L \in IntrLists :
        /\ (front(IntrState, L) = end(L)) <=> empty(IntrState, L)
        /\ (back(IntrState, L) = end(L)) <=> empty(IntrState, L)
        /\ empty(IntrState, L) <=>
              (\A h \in Hooks : hnext[h] # end(L) /\ hprev[h] # end(L))
        /\ empty(IntrState, L) <=> (IFwd(L) = <<>>)
        /\ empty(IntrState, L) <=> (IBwd(L) = <<>>)

\* the last hook of list 1 has just been removed while list 2 holds hooks
C20_Witness ==
    /\ InIntr /\ last.op = "remove"
    /\ Len(IFwdOf(pre, 1)) = 1 /\ last.args[1] = IFwdOf(pre, 1)[1]
    /\ empty(IntrState, 1) /\ front(IntrState, 1) = end(1) /\ back(IntrState, 1) = end(1)
    /\ ~empty(IntrState, 2) /\ Len(IFwd(2)) = 2
    /\ front(IntrState, 2) # end(2) /\ back(IntrState, 2) # end(2)

\* the slots of list L that hold a constructed value in pool state s
Live(s, L) == {n \in {Slot(L, i) : i \in 0..(s.cap_[L] - 1)} : s.value[n] # NoValue}

\* C21: in every state of the pool list's life a slot holds a constructed
\* value iff it is linked in the ring, and no slot of the free chain does; a
\* value is constructed only by a successful emplace, in a slot that held
\* none; erase destroys exactly the value of the erased node, which was alive;
\* clear and the destructor destroy exactly the values alive, each met once;
\* when the slab is released no value is left alive.
C21_ValueLifetime ==
    InPool => \A L \in Driven :
        /\ last.op # "~ll_list_pool" =>
              /\ Live(PoolState, L) = Range(Fwd(L))
              /\ NoDup(Fwd(L))
              /\ \A n \in Range(FreeChain(L)) : value[n] = NoValue
        /\ Live(PoolState, L) \ Live(pre, L) =
              IF last.op \in {"emplace_front", "emplace_back"} /\ ~last.exc
              THEN {last.ret} ELSE {}
        /\ Live(pre, L) \ Live(PoolState, L) =
              IF last.op = "erase" THEN {last.args[1]}
              ELSE IF last.op \in {"clear", "~ll_list_pool"} THEN Live(pre, L)
              ELSE {}
        /\ last.op = "erase" => last.args[1] \in Live(pre, L)
        /\ last.op \in {"clear", "~ll_list_pool"} =>
              /\ Live(PoolState, L) = {}
              /\ Live(pre, L) = Range(FwdOf(pre, L))
              /\ NoDup(FwdOf(pre, L))
        /\ \A n \in Live(pre, L) \cap Live(PoolState, L) : value[n] = pre.value[n]

\* the destructor runs on a list holding two values
C21_Witness ==
    /\ InPool /\ last.op = "~ll_list_pool"
    /\ pre.size_[1] = 2 /\ pre.cap_[1] = 3
    /\ Cardinality(Live(pre, 1)) = 2
    /\ Live(PoolState, 1) = {}
    /\ prev[Slot(1, 0)] = INDET

\* C22: an emplace on a pool list of capacity C throws std::bad_alloc exactly
\* when size() == C and succeeds whenever size() < C; right after a failed
\* emplace, one erase of any element makes the next emplace succeed; size()
\* never exceeds C and C never changes.
C22_ExhaustionNotSticky ==
    InPool => \A L \in Driven :
        /\ last.op \in {"emplace_front", "emplace_back"} =>
              (last.exc <=> pre.size_[L] = pre.cap_[L])
        /\ emplace_front(PoolState, L, 1).exc <=> size_[L] = cap_[L]
        /\ emplace_back(PoolState, L, 1).exc <=> size_[L] = cap_[L]
        /\ (last.op \in {"emplace_front", "emplace_back"} /\ last.exc) =>
              \A n \in Range(Fwd(L)) : \A v \in Values :
                  /\ ~emplace_front(erase(PoolState, L, n).s, L, v).exc
                  /\ ~emplace_back(erase(PoolState, L, n).s, L, v).exc
        /\ size_[L] <= cap_[L]
        /\ Len(Fwd(L)) <= cap_[L]
        /\ cap_[L] = pre.cap_[L]

\* a full list of capacity 3 refuses an emplace and accepts one after an erase
C22_Witness ==
    /\ InPool /\ last.op = "emplace_front" /\ last.exc
    /\ cap_[1] = 3 /\ size_[1] = 3
    /\ emplace_back(PoolState, 1, 2).exc
    /\ ~emplace_back(erase(PoolState, 1, Fwd(1)[2]).s, 1, 2).exc
    /\ erase(PoolState, 1, Fwd(1)[2]).s.size_[1] = 2

\* C23: when splice(pos, what) or splice(pos, first, last) on one pool list
\* names nodes linked in another pool list, afterwards each list's size() still
\* equals its own traversal count and every slot linked in a list or on its
\* free chain belongs to that list's own slab, no slot being shared.
C23_ArenaExclusive ==
    InPool => \A L \in PoolLists :
        /\ BAD \notin Range(Fwd(L))
        /\ Len(Fwd(L)) = size_[L]
        /\ Range(Fwd(L)) \subseteq SlabOf(L)
        /\ Range(FreeChain(L)) \subseteq SlabOf(L)

\* C24: intrusive splice(pos, h) with h unlinked and pos on a list's ring
\* (end() included) acts as a splice-in: h ends linked immediately before pos,
\* the list's traversal is the former one with h inserted before pos, the other
\* list's traversal and every other hook's linked state are unchanged, and
\* both rings are well-formed.
C24_SpliceIn ==
    (InIntr /\ last.op = "splice" /\ ~is_linked(pre, last.args[2])) =>
        LET pos == last.args[1]
            h == last.args[2]
            L1 == last.list
        IN  /\ is_linked(IntrState, h)
            /\ hnext[h] = pos /\ hprev[pos] = h
            /\ hprev[h] = pre.prev[pos] /\ hnext[pre.prev[pos]] = h
            /\ IFwd(L1) = InsertBefore(IFwdOf(pre, L1), pos, <<h>>)
            /\ \A L2 \in IntrLists \ {L1} : IFwd(L2) = IFwdOf(pre, L2)
            /\ \A g \in Hooks \ {h} :
                  is_linked(IntrState, g) <=> is_linked(pre, g)
            /\ \A L \in IntrLists : IRingOk(IntrState, L)

\* an unlinked hook spliced in between two linked hooks of list 1
C24_Witness ==
    /\ InIntr /\ last.op = "splice" /\ last.list = 1
    /\ ~is_linked(pre, last.args[2])
    /\ Len(IFwdOf(pre, 1)) = 2
    /\ last.args[1] = IFwdOf(pre, 1)[2]
    /\ IFwd(1) = <<IFwdOf(pre, 1)[1], last.args[2], IFwdOf(pre, 1)[2]>>

\* C25: range splice(pos, first, last) with first # last and pos inside
\* [first, last) (pos = first included), on the pool list or the intrusive
\* list, leaves the ring well-formed: every element that was on the list is
\* still reached from the sentinel by next and by prev, and for the pool list
\* size() still equals the traversal count.
C25_SpliceInsideRange ==
    (last.op = "splice_range" /\ last.args[2] # last.args[3]
       /\ last.args[1] \in Range(RangeBefore(last.args[2], last.args[3]))) =>
        /\ InPool =>
             /\ BAD \notin Range(Fwd(last.list)) \cup Range(Bwd(last.list))
             /\ Range(FwdOf(pre, last.list)) \subseteq Range(Fwd(last.list))
             /\ Range(FwdOf(pre, last.list)) \subseteq Range(Bwd(last.list))
             /\ size_[last.list] = Len(Fwd(last.list))
        /\ InIntr =>
             /\ BAD \notin Range(IFwd(last.list)) \cup Range(IBwd(last.list))
             /\ Range(IFwdOf(pre, last.list)) \subseteq Range(IFwd(last.list))
             /\ Range(IFwdOf(pre, last.list)) \subseteq Range(IBwd(last.list))

\* C26: intrusive remove is idempotent: remove(h) on a hook that is already
\* unlinked changes no link field of h, of any other hook or of any sentinel,
\* so remove(h); remove(h) leaves the same state as a single remove(h).
C26_RemoveIdempotent ==
    InIntr =>
        /\ (last.op = "remove" /\ ~is_linked(pre, last.args[1])) =>
              IntrState = pre
        /\ last.op = "remove" => remove(IntrState, last.args[1]) = IntrState
        /\ \A h \in Hooks :
              /\ ~is_linked(IntrState, h) => remove(IntrState, h) = IntrState
              /\ remove(remove(IntrState, h), h) = remove(IntrState, h)

\* remove called on an unlinked hook while both lists hold hooks
C26_Witness ==
    /\ InIntr /\ last.op = "remove"
    /\ ~is_linked(pre, last.args[1])
    /\ Len(IFwdOf(pre, 1)) = 2 /\ Len(IFwdOf(pre, 2)) = 1
    /\ IFwd(1) = IFwdOf(pre, 1)

\* C27: when an intrusive_list ends its life while hooks are still linked on
\* it, every such hook ends unlinked, so no surviving hook keeps a prev or next
\* link to the destroyed list's sentinel.
C27_HooksUnlinkedAtEnd ==
    (InIntr /\ last.op = "~intrusive_list") =>
        /\ \A h \in Range(IFwdOf(pre, last.list)) : ~is_linked(IntrState, h)
        /\ \A h \in Hooks : /\ hprev[h] # ISentinel(last.list)
                            /\ hnext[h] # ISentinel(last.list)

\* an ASCII letter [A-Za-z]
IsLetter(b) == b \in (Ascii.A)..(Ascii.Z) \cup (Ascii.a)..(Ascii.z)

RECURSIVE RunFrom(_, _)
\* the number of consecutive letters of s from position a on
RunFrom(s, a) ==
    IF a > Len(s) THEN 0
    ELSE IF ~IsLetter(s[a]) THEN 0
    ELSE 1 + RunFrom(s, a + 1)

\* the greatest member of a non-empty set of integers
Greatest(S) == CHOOSE m \in S : \A x \in S : x <= m

\* the length of the longest maximal run of letters of s, 0 when it has none
LongestRun(s) == Greatest({0} \cup {RunFrom(s, a) : a \in 1..Len(s)})

\* the positions of s where a maximal run of letters starts
TokenStarts(s) ==
    {a \in 1..Len(s) : IsLetter(s[a]) /\ (a = 1 \/ ~IsLetter(s[a - 1]))}

RECURSIVE TokensFrom(_, _)
\* the maximal runs of letters of s that start at position a or later, in order
TokensFrom(s, a) ==
    IF a > Len(s) THEN <<>>
    ELSE IF a \in TokenStarts(s)
         THEN <<SubSeq(s, a, a + RunFrom(s, a) - 1)>> \o TokensFrom(s, a + RunFrom(s, a))
         ELSE TokensFrom(s, a + 1)

Tokens(s) == TokensFrom(s, 1)

\* the letters that close the run ending at the last position of s
RECURSIVE RunBack(_, _)
RunBack(s, b) ==
    IF b < 1 THEN 0
    ELSE IF ~IsLetter(s[b]) THEN 0
    ELSE 1 + RunBack(s, b - 1)

\* c | 32 lands in a..z exactly for the letters, over every char value
FoldExact ==
    \A b \in CharValues :
        (Or32(b) >= Ascii.a /\ Or32(b) <= Ascii.z) <=> IsLetter(b)

\* the tokens of the worked example: this, is, a, very, longWORD, with,
\* interruptions
ExampleTokens ==
    <<<<116, 104, 105, 115>>,
      <<105, 115>>,
      <<97>>,
      <<118, 101, 114, 121>>,
      <<108, 111, 110, 103, 87, 79, 82, 68>>,
      <<119, 105, 116, 104>>,
      <<105, 110, 116, 101, 114, 114, 117, 112, 116, 105, 111, 110, 115>>>>

InScan == scope = "scan"

\* C28: for every input character sequence the single-pass loop's result best
\* equals the length of the longest maximal contiguous run of ASCII letters
\* [A-Za-z] (upper and lower case both count; digits, punctuation, whitespace
\* and every other byte end a run; 0 when there is no letter); after every
\* turn best is that length for the characters read so far and current the
\* length of the run they end with; on the synthetic input with a space at
\* every 50th position the result is 49.
C28_LongestToken ==
    InScan =>
        /\ FoldExact
        /\ scan.best = LongestRun(SubSeq(scan.s, 1, scan.i))
        /\ scan.current = RunBack(scan.s, scan.i)
        /\ scan.done => scan.best = LongestRun(scan.s)
        /\ (scan.done /\ \A k \in 1..Len(scan.s) : ~IsLetter(scan.s[k])) =>
              scan.best = 0
        /\ (scan.done /\ scan.s = Synthetic(ScanN)) => scan.best = 49

\* the synthetic input scanned to its end
C28_Witness ==
    /\ InScan /\ scan.done
    /\ scan.s = Synthetic(ScanN)
    /\ scan.best = 49

=============================================================================
